---- MODULE Spec2Model ----
(***************************************************************************)
(* Model of scrape.ts: one run fetches the listing page, extracts one      *)
(* TextEntry per item, merges the entries into the persisted history       *)
(* (a Map keyed by url || name), sorts the result by name and writes it    *)
(* back with fs.writeFile.  cron re-invokes the program.                   *)
(*                                                                         *)
(* Spec   : the life cycle of the runs against the persisted file.         *)
(* SpecR  : the merge (index, loop, sort) applied to drawn inputs.         *)
(***************************************************************************)
EXTENDS Integers, Sequences, FiniteSets, TLC

VARIABLES
  file,           \* content at outPath
  clock,          \* what new Date() returns
  pc,             \* position of main(): "start", "load", "save", "writing", "exited"
  parsedEntries,  \* main: parsedEntries
  merged,         \* main: merged
  exitCode,       \* process exit code, -1 while running
  err,            \* what main().catch received, "none" if nothing
  existing,       \* SpecR: the history given to the merge
  items,          \* SpecR: the observations (name, url, points) in document order
  out1,           \* SpecR: merge of items into existing
  out2,           \* SpecR: merge of the same items into out1
  outP,           \* SpecR: merge of the permuted items into existing
  stage           \* SpecR: "input", "once", "twice", "permuted"

vars == <<file, clock, pc, parsedEntries, merged, exitCode, err,
          existing, items, out1, out2, outP, stage>>

runVars == <<file, clock, pc, parsedEntries, merged, exitCode, err>>
pureVars == <<existing, items, out1, out2, outP, stage>>

----
\* Bounds of the model
MaxObs == 2      \* items on one page
MaxHist == 1     \* entries of a drawn input history
MaxClock == 1    \* last instant of the clock

Names == {"a", "A", "B"}
Urls == {"", "u1"}
Points == {5, 7}

\* score sequences of the drawn input histories (timestamp 0)
ScoreSamples ==
  { <<>>,
    <<[timestamp |-> 0, points |-> 5]>>,
    <<[timestamp |-> 0, points |-> 5], [timestamp |-> 0, points |-> 7]>> }

Observations == [name : Names, url : Urls, points : Points]
\* what a page of the runs can list
PageItems == [name : {"a"}, url : Urls, points : Points]
HistNames == {"a", "B"}
HistEntries == [name : HistNames, url : Urls, score : ScoreSamples]

SeqsUpTo(S, n) == UNION { [1..k -> S] : k \in 0..n }

----
\* The merge

\* url || name
KeyNameFirst(e) == IF e.name # "" THEN e.name ELSE e.url
Key(e) == IF e.url # "" THEN e.url ELSE e.name

\* Map<string, TextEntry> as the sequence of its (key, value) pairs in
\* insertion order
MapHas(m, k) == \E i \in DOMAIN m : m[i].key = k
MapIndex(m, k) == CHOOSE i \in DOMAIN m : m[i].key = k
MapGet(m, k) == m[MapIndex(m, k)].val
MapSet(m, k, v) ==
  IF MapHas(m, k)
    THEN [m EXCEPT ![MapIndex(m, k)].val = v]
    ELSE Append(m, [key |-> k, val |-> v])
MapValues(m) == [i \in DOMAIN m |-> m[i].val]

\* for (const e of existing) existingMap.set(e.url || e.name, e)
RECURSIVE IndexFrom(_, _)
IndexFrom(m, es) ==
  IF es = <<>> THEN m
  ELSE IndexFrom(MapSet(m, Key(Head(es)), Head(es)), Tail(es))
IndexExisting(es) == IndexFrom(<<>>, es)

\* existingEntry.score[existingEntry.score.length - 1]
LastFirst(score) == score[1]
Last(score) == score[Len(score)]

\* existingEntry.score.push(...)
Push(score, sp) == Append(score, sp)

\* !last || last.points !== currentPoints
ChangedAlways(score, currentPoints) == TRUE
Changed(score, currentPoints) ==
  Len(score) = 0 \/ Last(score).points # currentPoints

\* body of: for (const p of parsedEntries)
MergeOneRename(m, p) ==
  IF ~MapHas(m, Key(p)) THEN MapSet(m, Key(p), p)
  ELSE LET e == MapGet(m, Key(p))
           s == IF Changed(e.score, p.score[1].points)
                  THEN Push(e.score, p.score[1]) ELSE e.score
       IN  MapSet(m, Key(p), [name |-> p.name, url |-> p.url, score |-> s])
MergeOne(m, p) ==
  LET key == Key(p) IN
  IF ~MapHas(m, key) THEN MapSet(m, key, p)
  ELSE LET existingEntry == MapGet(m, key)
           currentPoints == p.score[1].points
       IN  IF Changed(existingEntry.score, currentPoints)
             THEN MapSet(m, key,
                    [existingEntry EXCEPT !.score =
                       Push(@, [timestamp |-> p.score[1].timestamp,
                                points |-> currentPoints])])
             ELSE m

RECURSIVE MergeAll(_, _)
MergeAll(m, ps) ==
  IF ps = <<>> THEN m ELSE MergeAll(MergeOne(m, Head(ps)), Tail(ps))

\* a.name.localeCompare(b.name, undefined, { sensitivity: "base" })
BaseLetter(n) == IF n = "A" THEN "a" ELSE IF n = "B" THEN "b" ELSE n
CollationRank(n) ==
  CASE BaseLetter(n) = "" -> 0 [] BaseLetter(n) = "a" -> 1 [] BaseLetter(n) = "b" -> 2
CodeUnitRank(n) == CASE n = "" -> 0 [] n = "A" -> 1 [] n = "B" -> 2 [] n = "a" -> 3
Sign(x) == IF x < 0 THEN -1 ELSE IF x > 0 THEN 1 ELSE 0
LocaleCompareOrdinal(a, b) == Sign(CodeUnitRank(a) - CodeUnitRank(b))
LocaleCompare(a, b) == Sign(CollationRank(a) - CollationRank(b))

\* Array.prototype.sort is stable: an element goes after every element that
\* does not compare greater
InsertSorted(sorted, e) ==
  LET after == { i \in DOMAIN sorted : LocaleCompare(sorted[i].name, e.name) > 0 }
      at == IF after = {} THEN Len(sorted) + 1
            ELSE CHOOSE i \in after : \A j \in after : i <= j
  IN  SubSeq(sorted, 1, at - 1) \o <<e>> \o SubSeq(sorted, at, Len(sorted))
RECURSIVE SortFrom(_, _)
SortFrom(sorted, es) ==
  IF es = <<>> THEN sorted ELSE SortFrom(InsertSorted(sorted, Head(es)), Tail(es))
SortByName(es) == SortFrom(<<>>, es)

\* main, from the indexing of existing to merged
Reconcile(es, ps) == SortByName(MapValues(MergeAll(IndexExisting(es), ps)))

\* itemsFallback.each: one TextEntry per item, stamped with new Date() at the
\* moment the item is processed
ParseEntries(its, tss) ==
  [i \in DOMAIN its |->
     [name |-> its[i].name, url |-> its[i].url,
      score |-> <<[timestamp |-> tss[i], points |-> its[i].points]>>]]

----
\* The persisted file

Missing == [kind |-> "missing", data |-> <<>>]
Garbage == [kind |-> "garbage", data |-> <<>>]
NonArray == [kind |-> "nonarray", data |-> <<>>]
Partial(es, k) == [kind |-> "partial", data |-> SubSeq(es, 1, k)]

\* JSON.stringify(data, null, 2)
Serialize(es) == [kind |-> "json", data |-> es]

\* loadExisting: readFile or JSON.parse throwing gives []; whatever JSON.parse
\* returns is returned as it is
loadExistingEmpty(f) == [iterable |-> TRUE, entries |-> <<>>]
loadExisting(f) ==
  CASE f.kind = "json" -> [iterable |-> TRUE, entries |-> f.data]
    [] f.kind = "nonarray" -> [iterable |-> FALSE, entries |-> <<>>]
    [] OTHER -> [iterable |-> TRUE, entries |-> <<>>]

----
\* The runs (Spec)

Init ==
  /\ file \in {Missing, Garbage, NonArray}
  /\ clock = 0
  /\ pc = "start"
  /\ parsedEntries = <<>>
  /\ merged = <<>>
  /\ exitCode = -1
  /\ err = "none"
  /\ existing = <<>> /\ items = <<>>
  /\ out1 = <<>> /\ out2 = <<>> /\ outP = <<>> /\ stage = "input"

\* the instants new Date() can return for n items processed one after the
\* other, the clock being at t0 when the first is processed
Readings(t0, n) ==
  { tss \in [1..n -> t0..MaxClock] :
      \A i \in 1..n : \A j \in 1..n : i <= j => tss[i] <= tss[j] }

\* main().catch: log the error, process.exit(1)
Abort(e) ==
  /\ pc' = "exited"
  /\ exitCode' = 1
  /\ err' = e

\* fetchHtml throws: transport error or !res.ok
FetchFails ==
  /\ pc = "start"
  /\ Abort("fetch")
  /\ UNCHANGED <<file, clock, parsedEntries, merged>>
  /\ UNCHANGED pureVars

\* fetchHtml resolves; cheerio.load, the selectors and the each loop run to the
\* await of loadExisting
FetchAndParse ==
  /\ pc = "start"
  /\ \E its \in SeqsUpTo(PageItems, MaxObs) :
       \E tss \in Readings(clock, Len(its)) :
         /\ parsedEntries' = ParseEntries(its, tss)
         /\ clock' = IF Len(its) = 0 THEN clock ELSE tss[Len(its)]
  /\ pc' = "load"
  /\ UNCHANGED <<file, merged, exitCode, err>>
  /\ UNCHANGED pureVars

\* loadExisting resolves; the indexing, the merge loop and the sort run to the
\* await of saveOut.  for..of over a value that is not iterable throws.
LoadAndMerge ==
  /\ pc = "load"
  /\ LET loaded == loadExisting(file) IN
       IF loaded.iterable
         THEN /\ merged' = Reconcile(loaded.entries, parsedEntries)
              /\ pc' = "save"
              /\ UNCHANGED <<exitCode, err>>
         ELSE /\ Abort("TypeError")
              /\ UNCHANGED merged
  /\ UNCHANGED <<file, clock, parsedEntries>>
  /\ UNCHANGED pureVars

\* fs.writeFile opens outPath with flag "w": the file is created or truncated
SaveOpen ==
  /\ pc = "save"
  /\ file' = Partial(merged, 0)
  /\ pc' = "writing"
  /\ UNCHANGED <<clock, parsedEntries, merged, exitCode, err>>
  /\ UNCHANGED pureVars

\* the open fails (EACCES, ENOENT of the directory): writeFile rejects
SaveOpenFails ==
  /\ pc = "save"
  /\ Abort("save")
  /\ UNCHANGED <<file, clock, parsedEntries, merged>>
  /\ UNCHANGED pureVars

\* a write fails (ENOSPC, EIO) after some of the text reached the file
SaveWriteFails ==
  /\ pc = "writing"
  /\ \E k \in 0..Len(merged) :
       /\ k < Len(merged)
       /\ file' = Partial(merged, k)
  /\ Abort("save")
  /\ UNCHANGED <<clock, parsedEntries, merged>>
  /\ UNCHANGED pureVars

\* all of JSON.stringify(merged, null, 2) is written; main returns
SaveCompletes ==
  /\ pc = "writing"
  /\ file' = Serialize(merged)
  /\ pc' = "exited"
  /\ exitCode' = 0
  /\ UNCHANGED <<clock, parsedEntries, merged, err>>
  /\ UNCHANGED pureVars

\* crond starts the next run
NextRun ==
  /\ pc = "exited"
  /\ clock < MaxClock
  /\ clock' = clock + 1
  /\ pc' = "start"
  /\ parsedEntries' = <<>>
  /\ merged' = <<>>
  /\ exitCode' = -1
  /\ err' = "none"
  /\ UNCHANGED file
  /\ UNCHANGED pureVars

Next ==
  \/ FetchFails
  \/ FetchAndParse
  \/ LoadAndMerge
  \/ SaveOpen
  \/ SaveOpenFails
  \/ SaveWriteFails
  \/ SaveCompletes
  \/ NextRun

Spec == Init /\ [][Next]_vars

----
\* The merge on drawn inputs (SpecR)

InitR ==
  /\ existing \in SeqsUpTo(HistEntries, MaxHist)
  /\ items \in SeqsUpTo(Observations, MaxObs)
  /\ out1 = <<>> /\ out2 = <<>> /\ outP = <<>>
  /\ stage = "input"
  /\ file = Missing /\ clock = 0 /\ pc = "start"
  /\ parsedEntries = <<>> /\ merged = <<>>
  /\ exitCode = -1 /\ err = "none"

\* the entries one run extracts from its, all processed at instant t
ParsedAt(its, t) == ParseEntries(its, [i \in DOMAIN its |-> t])

\* its with the items at positions i and j exchanged
Swapped(its, i, j) ==
  [k \in DOMAIN its |-> IF k = i THEN its[j] ELSE IF k = j THEN its[i] ELSE its[k]]

\* a run at instant 1 merges items into existing
ReconcileOnce ==
  /\ stage = "input"
  /\ out1' = Reconcile(existing, ParsedAt(items, 1))
  /\ stage' = "once"
  /\ UNCHANGED <<existing, items, out2, outP>>
  /\ UNCHANGED runVars

\* the next run, at instant 2, finds the same items and merges them into out1
ReconcileAgain ==
  /\ stage = "once"
  /\ out2' = Reconcile(out1, ParsedAt(items, 2))
  /\ stage' = "twice"
  /\ UNCHANGED <<existing, items, out1, outP>>
  /\ UNCHANGED runVars

\* the run at instant 1, had the page listed two of its items the other way
\* round (every permutation is a sequence of such exchanges)
ReconcilePermuted ==
  /\ stage = "once"
  /\ \E i \in DOMAIN items : \E j \in DOMAIN items :
       /\ i < j
       /\ outP' = Reconcile(existing, ParsedAt(Swapped(items, i, j), 1))
  /\ stage' = "permuted"
  /\ UNCHANGED <<existing, items, out1, out2>>
  /\ UNCHANGED runVars

NextR ==
  \/ ReconcileOnce
  \/ ReconcileAgain
  \/ ReconcilePermuted

SpecR == InitR /\ [][NextR]_vars

----
\* Vocabulary of the properties

\* the identity key of an entry or observation: its url when non-empty, else
\* its name
Identity(e) == IF e.url = "" THEN e.name ELSE e.url
Identities(es) == { Identity(es[i]) : i \in DOMAIN es }
DistinctIdentities(es) ==
  \A i \in DOMAIN es : \A j \in DOMAIN es : Identity(es[i]) = Identity(es[j]) => i = j

IsPrefix(s, t) == Len(s) <= Len(t) /\ \A k \in DOMAIN s : t[k] = s[k]
NamesOf(es) == [i \in DOMAIN es |-> es[i].name]
FoldedNamesOf(es) == [i \in DOMAIN es |-> BaseLetter(es[i].name)]
SortedByFoldedName(es) ==
  \A i \in DOMAIN es : \A j \in DOMAIN es :
    i < j => CollationRank(es[i].name) <= CollationRank(es[j].name)

\* change detection: a point is appended when the score is empty or the
\* observed points differ from the last recorded points
RECURSIVE Observe(_, _, _)
Observe(score, pts, t) ==
  IF pts = <<>> THEN score
  ELSE Observe(IF score = <<>> \/ score[Len(score)].points # Head(pts)
                 THEN Append(score, [timestamp |-> t, points |-> Head(pts)])
                 ELSE score,
               Tail(pts), t)

\* the points, in document order, of the observations with identity id
RECURSIVE PointsFor(_, _)
PointsFor(its, id) ==
  IF its = <<>> THEN <<>>
  ELSE (IF Identity(Head(its)) = id THEN <<Head(its).points>> ELSE <<>>)
         \o PointsFor(Tail(its), id)

\* the entry of a history the index keeps for an identity: the last one
Kept(es, id) ==
  es[CHOOSE h \in DOMAIN es :
       /\ Identity(es[h]) = id
       /\ \A g \in DOMAIN es : Identity(es[g]) = id => g <= h]

----
\* Properties of the merge (SpecR)

\* C1: merging the same observations a second time, into the result of the
\* first merge, appends no ScorePoint: every entry's score sequence is the
\* same before and after the second pass.
C1_Idempotent ==
  stage = "twice" =>
    /\ Len(out2) = Len(out1)
    /\ \A i \in DOMAIN out1 : out2[i].score = out1[i].score

\* C3: for each observation whose identity matches an existing entry, one
\* ScorePoint with the observed points is appended (earlier points intact)
\* when the score is empty or the points differ from the last recorded
\* points, and the score is left as it is when they are equal.
C3_ChangeDetection ==
  stage = "once" =>
    \A id \in Identities(existing) \cap Identities(items) :
      /\ \E j \in DOMAIN out1 : Identity(out1[j]) = id
      /\ \A j \in DOMAIN out1 :
           Identity(out1[j]) = id =>
             out1[j].score =
               Observe(Kept(existing, id).score, PointsFor(items, id), 1)

C3_Witness ==
  /\ stage = "once"
  /\ \E h \in DOMAIN existing : \E i \in DOMAIN items : \E k \in DOMAIN items :
       \E j \in DOMAIN out1 :
       /\ Identity(existing[h]) = Identity(items[i])
       /\ Identity(existing[h]) = Identity(items[k])
       /\ Identity(existing[h]) = Identity(out1[j])
       /\ i < k
       /\ existing[h].score # <<>>
       /\ existing[h].score[Len(existing[h].score)].points # items[i].points
       /\ items[k].points = items[i].points
       /\ out1[j].score =
            Append(existing[h].score, [timestamp |-> 1, points |-> items[i].points])

\* C4: the identity of an observation is its url when non-empty, else its
\* name; the merged history holds exactly one entry per identity observed, so
\* two observations with one url and different names, or with empty url and
\* one name, are one entry.
C4_IdentityPrecedence ==
  stage = "once" =>
    \A i \in DOMAIN items :
      Cardinality({ j \in DOMAIN out1 : Identity(out1[j]) = Identity(items[i]) }) = 1

C4_Witness ==
  /\ stage = "once"
  /\ existing = <<>>
  /\ Len(out1) = 1
  /\ \E i \in DOMAIN items : \E k \in DOMAIN items :
       /\ items[i].url # "" /\ items[i].url = items[k].url
       /\ items[i].name # items[k].name

\* C8 (as stated): the output is ordered by case-insensitive name, and
\* permuting the observations does not change the order of names in it.
C8_PermutationKeepsNames ==
  /\ stage # "input" => SortedByFoldedName(out1)
  /\ stage = "permuted" => NamesOf(outP) = NamesOf(out1)

\* C8 (amended): the output of every merge is ordered by case-insensitive
\* comparison of the names, whatever the history and the order of the
\* observations; when the observations have pairwise distinct identities,
\* permuting them does not change the sequence of case-folded names.
C8_Sorted ==
  /\ stage # "input" => SortedByFoldedName(out1)
  /\ stage = "twice" => SortedByFoldedName(out2)
  /\ stage = "permuted" =>
       /\ SortedByFoldedName(outP)
       /\ DistinctIdentities(items) => FoldedNamesOf(outP) = FoldedNamesOf(out1)

C8_Witness ==
  /\ stage = "permuted"
  /\ DistinctIdentities(items)
  /\ Len(out1) >= 2
  /\ outP # out1
  /\ \E i \in DOMAIN out1 : \E j \in DOMAIN out1 :
       CollationRank(out1[i].name) < CollationRank(out1[j].name)

\* C9: for a history with distinct identities, every input entry is in the
\* output with its name and url and with its score as a prefix of the output
\* score; an entry no observation matches is unchanged; every other output
\* entry comes from an observation whose identity the history did not hold.
C9_Frame ==
  (stage = "once" /\ DistinctIdentities(existing)) =>
    /\ \A h \in DOMAIN existing : \E j \in DOMAIN out1 :
         /\ out1[j].name = existing[h].name
         /\ out1[j].url = existing[h].url
         /\ IsPrefix(existing[h].score, out1[j].score)
         /\ Identity(existing[h]) \notin Identities(items) => out1[j] = existing[h]
    /\ \A j \in DOMAIN out1 :
         Identity(out1[j]) \notin Identities(existing) =>
           \E i \in DOMAIN items :
             /\ out1[j].name = items[i].name
             /\ out1[j].url = items[i].url
    /\ Len(out1) = Cardinality(Identities(existing) \cup Identities(items))

C9_Witness ==
  /\ stage = "once"
  /\ existing # <<>>
  /\ DistinctIdentities(existing)
  /\ \E h \in DOMAIN existing : \E i \in DOMAIN items :
       /\ Identity(items[i]) = Identity(existing[h])
       /\ items[i].name # existing[h].name
  /\ \E i \in DOMAIN items : Identity(items[i]) \notin Identities(existing)

----
\* Properties of the runs (Spec)

\* merged holds every entry of history, none with a shorter score
Grows(history, result) ==
  /\ Len(result) >= Len(history)
  /\ \A h \in DOMAIN history : \E j \in DOMAIN result :
       /\ Identity(result[j]) = Identity(history[h])
       /\ Len(result[j].score) >= Len(history[h].score)

\* C2: a run that starts from the history the previous run produced and
\* persisted produces a history with at least as many entries and no shorter
\* score, and a run that exits with 0 has persisted exactly that history.
C2_MonotonicGrowth ==
  /\ (pc = "save" /\ file.kind = "json") => Grows(file.data, merged)
  /\ (pc = "exited" /\ exitCode = 0) => file = Serialize(merged)

C2_Witness ==
  /\ pc = "save"
  /\ file.kind = "json"
  /\ Len(merged) > Len(file.data)
  /\ \E h \in DOMAIN file.data : \E j \in DOMAIN merged :
       /\ Identity(merged[j]) = Identity(file.data[h])
       /\ Len(merged[j].score) > Len(file.data[h].score)

\* C5: all entries extracted in one run carry the same timestamp, even when
\* the clock advances while the items are processed.
C5_SingleTimestamp ==
  \A i \in DOMAIN parsedEntries : \A j \in DOMAIN parsedEntries :
    parsedEntries[i].score[1].timestamp = parsedEntries[j].score[1].timestamp

\* C6: at every step of a run the file keeps its content or becomes the
\* complete serialized merged history; it never holds a part of it.
C6_AtomicReplacement ==
  [][file' = file \/ file' = Serialize(merged)]_vars

\* C7: a run exits non-zero only on a fetch failure or a save failure; a
\* file that is missing, unreadable or malformed in any way is an empty
\* history.
C7_SoftLoad ==
  exitCode = 1 => err \in {"fetch", "save"}

\* every score is non-empty, identities are pairwise distinct and no two
\* consecutive points of an entry are equal
AppendsOnlyOnChange(es) ==
  /\ DistinctIdentities(es)
  /\ \A i \in DOMAIN es :
       /\ es[i].score # <<>>
       /\ \A k \in 1..(Len(es[i].score) - 1) :
            es[i].score[k].points # es[i].score[k + 1].points

\* C10: in every history reached by runs that start without a history, every
\* entry has a non-empty score, identities are pairwise distinct and no two
\* consecutive ScorePoints of an entry have equal points.
C10_AppendsOnlyOnChange ==
  /\ AppendsOnlyOnChange(merged)
  /\ file.kind = "json" => AppendsOnlyOnChange(file.data)

C10_Witness ==
  /\ file.kind = "json"
  /\ Len(file.data) >= 2
  /\ \E i \in DOMAIN file.data : Len(file.data[i].score) >= 3

====
